---- MODULE Spec2Model ----
(***************************************************************************)
(* Model of src/bn/openssl.rs: the BigNumber facade over the OpenSSL      *)
(* bignum engine, its error conversion and its thread-local scratch       *)
(* context (BN_CONTEXT).                                                  *)
(*                                                                         *)
(* A BigNumber is the engine's pair (neg, mag).  Every facade method is   *)
(* an operator that returns its result together with the sequence of      *)
(* engine calls it makes, with the borrow and the release of the scratch  *)
(* context around each call made through with_bn_context.                 *)
(***************************************************************************)
EXTENDS Integers, Sequences, FiniteSets, TLC

VARIABLES x, last, pc, ctx, panicked

vars == <<x, last, pc, ctx, panicked>>

\* ---------------------------------------------------------------- bounds
\* largest magnitude of a BigNumber drawn as an input
MaxVal == 17
\* largest machine word passed to add_word, sub_word, mul_word, div_word
MaxWord == 3
\* largest bit index passed to set_bit, largest shift passed to rshift
MaxBit == 3
\* largest size passed to generate_prime, generate_safe_prime, rand
MaxSize == 6
\* largest value of the upper 32 bits of a usize passed to from_u32
MaxHigh == 1
\* longest string passed to from_dec
MaxLen == 3
\* number of threads that call into the facade
NumThreads == 2

\* ------------------------------------------------------------ the values
Abs(v) == IF v < 0 THEN -v ELSE v

\* the BigNum the engine holds for the integer v
Mk(v) == [neg |-> v < 0, mag |-> Abs(v)]

\* the integer a BigNum stands for
Val(bn) == IF bn.neg THEN -bn.mag ELSE bn.mag

Zero == Mk(0)

Vals == {Mk(v) : v \in (-MaxVal)..MaxVal}

NonNegVals == {Mk(v) : v \in 0..MaxVal}

\* a usize seen as its upper and lower 32 bits
Usizes == [hi : 0..MaxHigh, lo : 0..MaxVal]

Chars == {"-", "0", "1", "5", "7"}

Strings == UNION {[1..n -> Chars] : n \in 0..MaxLen}

\* ------------------------------------------------------ engine results
EOk(bn) == [ok |-> TRUE, val |-> bn, reason |-> "none"]

EErr(reason) == [ok |-> FALSE, val |-> Zero, reason |-> reason]

\* ------------------------------------------------------ facade results
Ok(bn) == [ok |-> TRUE, val |-> bn, flag |-> FALSE, kind |-> "none"]

OkBool(f) == [ok |-> TRUE, val |-> Zero, flag |-> f, kind |-> "none"]

Err(kind) == [ok |-> FALSE, val |-> Zero, flag |-> FALSE, kind |-> kind]

\* impl From<ErrorStack> for ClError: every engine error, whatever its
\* reason, becomes an error of kind InvalidState
FromErrorStack(e) == Err("InvalidState")

\* the ? operator on an engine result
Try(r) == IF r.ok THEN Ok(r.val) ELSE FromErrorStack(r)

\* a facade call: its result and the engine calls it made
R(out, calls) == [out |-> out, calls |-> calls]

\* ------------------------------------------------------------ the engine
RECURSIVE NumBits(_)
NumBits(m) == IF m = 0 THEN 0 ELSE 1 + NumBits(m \div 2)

RECURSIVE Pow2(_)
Pow2(n) == IF n = 0 THEN 1 ELSE 2 * Pow2(n - 1)

BitSet(m, n) == (m \div Pow2(n)) % 2 = 1

\* BigNumRef::to_vec: the big-endian bytes of the magnitude, none for zero
RECURSIVE ToVec(_)
ToVec(m) == IF m = 0 THEN <<>> ELSE Append(ToVec(m \div 256), m % 256)

\* BigNum::from_slice: a non-negative number from big-endian bytes
RECURSIVE SliceMag(_)
SliceMag(bytes) ==
    IF bytes = <<>> THEN 0
    ELSE 256 * SliceMag(SubSeq(bytes, 1, Len(bytes) - 1)) + bytes[Len(bytes)]

FromSlice(bytes) == [neg |-> FALSE, mag |-> SliceMag(bytes)]

\* BN_set_negative without its test for zero
BN_set_negative_raw(bn, negative) == [neg |-> negative, mag |-> bn.mag]

\* BN_set_negative: zero stays non-negative
BN_set_negative(bn, negative) ==
    [neg |-> negative /\ bn.mag # 0, mag |-> bn.mag]

\* BN_set_word on a fresh number
BN_from_u32(w) == [neg |-> FALSE, mag |-> w]

\* BN_add_word, BN_sub_word: signed, the sign cleared on a zero result
BN_add_word(bn, w) == Mk(Val(bn) + w)

BN_sub_word(bn, w) == Mk(Val(bn) - w)

\* BN_mul_word: the magnitude times w, the sign kept unless the result is zero
BN_mul_word(bn, w) == [neg |-> bn.neg /\ bn.mag * w # 0, mag |-> bn.mag * w]

\* BN_div_word: the magnitude divided by w, an error for w = 0
BN_div_word(bn, w) ==
    IF w = 0 THEN EErr("div by zero")
    ELSE EOk([neg |-> bn.neg /\ bn.mag \div w # 0, mag |-> bn.mag \div w])

\* BN_set_bit: sets bit n of the magnitude, the sign untouched
BN_set_bit(bn, n) ==
    IF n < 0 THEN EErr("invalid shift")
    ELSE EOk([neg |-> bn.neg,
              mag |-> IF BitSet(bn.mag, n) THEN bn.mag ELSE bn.mag + Pow2(n)])

BN_add(a, b) == Mk(Val(a) + Val(b))

BN_sub(a, b) == Mk(Val(a) - Val(b))

BN_mul(a, b) ==
    [neg |-> (a.neg # b.neg) /\ a.mag * b.mag # 0, mag |-> a.mag * b.mag]

BN_sqr(a) == [neg |-> FALSE, mag |-> a.mag * a.mag]

\* BN_div: the quotient truncated toward zero
BN_div(a, d) ==
    IF d.mag = 0 THEN EErr("div by zero")
    ELSE EOk([neg |-> (a.neg # d.neg) /\ a.mag \div d.mag # 0,
              mag |-> a.mag \div d.mag])

\* BN_mod: the remainder of the truncated division, with the sign of a
BN_mod(a, d) ==
    IF d.mag = 0 THEN EErr("div by zero")
    ELSE EOk([neg |-> a.neg /\ a.mag % d.mag # 0, mag |-> a.mag % d.mag])

\* BN_nnmod: BN_mod, then |d| added to a negative remainder
BN_nnmod(a, d) ==
    LET r == BN_mod(a, d) IN
    IF ~r.ok THEN r
    ELSE IF ~r.val.neg THEN r
    ELSE EOk(Mk(Val(r.val) + d.mag))

RECURSIVE Euclid(_, _)
Euclid(a, b) == IF b = 0 THEN a ELSE Euclid(b, a % b)

BN_gcd(a, b) == [neg |-> FALSE, mag |-> Euclid(a.mag, b.mag)]

\* extended Euclid on naturals: <<g, s, t>> with a*s + b*t = g
RECURSIVE ExtEuclid(_, _)
ExtEuclid(a, b) ==
    IF b = 0 THEN <<a, 1, 0>>
    ELSE LET e == ExtEuclid(b, a % b)
         IN  <<e[1], e[3], e[2] - (a \div b) * e[3]>>

\* BN_mod_inverse: the inverse in [0, |n|), an error when there is none
BN_mod_inverse(a, n) ==
    IF n.mag <= 1 THEN EErr("no inverse")
    ELSE LET r == BN_nnmod(a, n)
             e == ExtEuclid(r.val.mag, n.mag)
         IN  IF e[1] # 1 THEN EErr("no inverse")
             ELSE EOk(Mk(e[2] % n.mag))

\* square and multiply on naturals, m > 0
RECURSIVE ModPow(_, _, _)
ModPow(b, e, m) ==
    IF e = 0 THEN 1 % m
    ELSE LET h == ModPow(b, e \div 2, m)
             s == (h * h) % m
         IN  IF e % 2 = 1 THEN (s * b) % m ELSE s

\* BN_mod_exp with a non-negative exponent p: the base is reduced first
BN_mod_exp(a, p, m) ==
    IF m.mag = 0 THEN EErr("div by zero")
    ELSE EOk(Mk(ModPow(BN_nnmod(a, m).val.mag, p.mag, m.mag)))

BN_mod_mul(a, b, m) == BN_nnmod(BN_mul(a, b), m)

BN_mod_sub(a, b, m) == BN_nnmod(BN_sub(a, b), m)

RECURSIVE Power(_, _)
Power(b, e) == IF e = 0 THEN 1 ELSE b * Power(b, e - 1)

BN_exp(a, p) == Mk(Power(Val(a), p.mag))

BN_lshift1(a) == [neg |-> a.neg, mag |-> 2 * a.mag]

\* BN_rshift1, BN_rshift: the magnitude shifted, no negative zero
BN_rshift(a, n) ==
    [neg |-> a.neg /\ a.mag \div Pow2(n) # 0, mag |-> a.mag \div Pow2(n)]

BN_rshift1(a) == BN_rshift(a, 1)

\* BN_cmp = 0: same sign and same magnitude
BN_eq(a, b) == a.neg = b.neg /\ a.mag = b.mag

IsPrimeNat(n) == n > 1 /\ \A d \in 2..(n - 1) : n % d # 0

\* BN_is_prime_fasttest_ex, taken as exact: nothing below 2 is prime
BN_is_prime(a) == ~a.neg /\ IsPrimeNat(a.mag)

\* BN_generate_prime_ex: the primes of exactly `bits` bits with the two top
\* bits set (BN_RAND_TOP_TWO); with safe, those whose half is prime too.
\* No result below 2 bits, nor for a safe prime of 2, 4 or 5 bits.
GeneratedPrimes(bits, safe) ==
    IF bits < 2 \/ (safe /\ bits < 6 /\ bits # 3) THEN {}
    ELSE {q \in Pow2(bits - 1)..(Pow2(bits) - 1) :
            /\ BitSet(q, bits - 2)
            /\ IsPrimeNat(q)
            /\ safe => IsPrimeNat((q - 1) \div 2)}

\* -------------------------------------------------- the scratch context
\* with_bn_context: the thread's scratch is borrowed mutably, the closure
\* makes its engine call, and the borrow ends when the closure returns
with_bn_context(call) == <<"borrow", call, "release">>

\* ------------------------------------------------------------ the facade
new == R(Ok(Zero), <<"BN_secure_new">>)

\* n as u32: the lower 32 bits of the usize
AsU32(n) == n.lo

USize(v) == [hi |-> 0, lo |-> v]

from_u32(n) == R(Ok(BN_from_u32(AsU32(n))), <<"BN_set_word">>)

DigitValue(c) ==
    CASE c = "0" -> 0 [] c = "1" -> 1 [] c = "5" -> 5 [] c = "7" -> 7
      [] OTHER -> 0

\* the digits a string starts with
RECURSIVE DigitRun(_)
DigitRun(s) ==
    IF s = <<>> \/ Head(s) = "-" THEN <<>>
    ELSE <<Head(s)>> \o DigitRun(Tail(s))

RECURSIVE DecMag(_)
DecMag(ds) ==
    IF ds = <<>> THEN 0
    ELSE 10 * DecMag(SubSeq(ds, 1, Len(ds) - 1)) + DigitValue(ds[Len(ds)])

\* BN_dec2bn: an optional minus sign, then the leading run of digits; an
\* error when there is no digit; no negative zero
BN_dec2bn(s) ==
    IF s = <<>> THEN EErr("no digits")
    ELSE LET neg == Head(s) = "-"
             ds  == DigitRun(IF neg THEN Tail(s) ELSE s)
         IN  IF ds = <<>> THEN EErr("no digits")
             ELSE EOk([neg |-> neg /\ DecMag(ds) # 0, mag |-> DecMag(ds)])

from_dec(dec) == R(Try(BN_dec2bn(dec)), <<"BN_dec2bn">>)

from_bytes(bytes) == R(Ok(FromSlice(bytes)), <<"BN_bin2bn">>)

is_prime(self) ==
    R(OkBool(BN_is_prime(self)), with_bn_context("BN_is_prime_fasttest_ex"))

add(self, a) == R(Ok(BN_add(self, a)), new.calls \o <<"BN_add">>)

sub(self, a) == R(Ok(BN_sub(self, a)), new.calls \o <<"BN_sub">>)

sqr(self) == R(Ok(BN_sqr(self)), new.calls \o with_bn_context("BN_sqr"))

mul(self, a) == R(Ok(BN_mul(self, a)), new.calls \o with_bn_context("BN_mul"))

mod_mul(self, a, n) ==
    R(Try(BN_mod_mul(self, a, n)), new.calls \o with_bn_context("BN_mod_mul"))

mod_sub(self, a, n) ==
    R(Try(BN_mod_sub(self, a, n)), new.calls \o with_bn_context("BN_mod_sub"))

div(self, a) == R(Try(BN_div(self, a)), new.calls \o with_bn_context("BN_div"))

gcd(a, b) == R(Ok(BN_gcd(a, b)), new.calls \o with_bn_context("BN_gcd"))

\* modulus through the truncated remainder BN_mod
modulus_truncated(self, a) ==
    R(Try(BN_mod(self, a)), new.calls \o with_bn_context("BN_mod"))

modulus(self, a) ==
    R(Try(BN_nnmod(self, a)), new.calls \o with_bn_context("BN_nnmod"))

exp(self, a) == R(Ok(BN_exp(self, a)), new.calls \o with_bn_context("BN_exp"))

inverse(self, n) ==
    R(Try(BN_mod_inverse(self, n)),
      new.calls \o with_bn_context("BN_mod_inverse"))

\* the copy path of set_negative, increment, decrement and try_clone: the
\* magnitude exported as bytes and imported again, which drops the sign
ByteCopy(self) == FromSlice(ToVec(self.mag))

CopyCalls == <<"BN_bn2bin", "BN_bin2bn">>

set_negative(self, negative) ==
    R(Ok(BN_set_negative(ByteCopy(self), negative)),
      CopyCalls \o <<"BN_set_negative">>)

is_negative(self) == self.neg

increment(self) ==
    R(Ok(BN_add_word(ByteCopy(self), 1)), CopyCalls \o <<"BN_add_word">>)

decrement(self) ==
    R(Ok(BN_sub_word(ByteCopy(self), 1)), CopyCalls \o <<"BN_sub_word">>)

lshift1(self) == R(Ok(BN_lshift1(self)), new.calls \o <<"BN_lshift1">>)

rshift1(self) == R(Ok(BN_rshift1(self)), new.calls \o <<"BN_rshift1">>)

rshift(self, n) == R(Ok(BN_rshift(self, n)), new.calls \o <<"BN_rshift">>)

try_clone(self) ==
    R(Ok(BN_set_negative(ByteCopy(self), is_negative(self))),
      CopyCalls \o <<"BN_set_negative">>)

\* mod_exp that drops the sign of the exponent and keeps the base
mod_exp_no_inverse(self, a, b) ==
    R(Try(BN_mod_exp(self, set_negative(a, FALSE).out.val, b)),
      new.calls \o with_bn_context("BN_mod_exp"))

\* mod_exp: with a negative exponent the base is replaced by its inverse
\* and the exponent by its magnitude; a missing inverse returns early
mod_exp(self, a, b) ==
    IF a.neg
    THEN LET base == inverse(self, b)
             a1   == set_negative(a, FALSE)
         IN  IF ~base.out.ok
             THEN R(base.out, new.calls \o base.calls)
             ELSE R(Try(BN_mod_exp(base.out.val, a1.out.val, b)),
                    new.calls \o base.calls \o a1.calls
                        \o with_bn_context("BN_mod_exp"))
    ELSE R(Try(BN_mod_exp(self, a, b)),
           new.calls \o with_bn_context("BN_mod_exp"))

\* mod_div that computes the inverse inside the closure of its own borrow
mod_div_nested(self, b, p) ==
    LET b1 == inverse(b, p)
    IN  IF ~b1.out.ok
        THEN R(b1.out, new.calls \o <<"borrow">> \o b1.calls \o <<"release">>)
        ELSE R(Try(BN_mod_mul(self, b1.out.val, p)),
               new.calls \o <<"borrow">> \o b1.calls
                   \o <<"BN_mod_mul", "release">>)

\* mod_div: self times the inverse of b modulo p
mod_div(self, b, p) ==
    LET b1 == inverse(b, p)
    IN  IF ~b1.out.ok
        THEN R(b1.out, new.calls \o b1.calls)
        ELSE R(Try(BN_mod_mul(self, b1.out.val, p)),
               new.calls \o b1.calls \o with_bn_context("BN_mod_mul"))

\* is_safe_prime without the test of self >> 1
is_safe_prime_no_half(self) ==
    LET three == from_u32(USize(3))
        m     == modulus(self, three.out.val)
        two   == from_u32(USize(2))
        pre   == three.calls \o m.calls \o two.calls
    IN  IF ~m.out.ok THEN R(m.out, three.calls \o m.calls)
        ELSE IF ~BN_eq(m.out.val, two.out.val) THEN R(OkBool(FALSE), pre)
        ELSE R(OkBool(is_prime(self).out.flag), pre \o is_prime(self).calls)

\* is_safe_prime: self mod 3 = 2, then self prime, then self >> 1 prime,
\* each test evaluated only when the one before it held
is_safe_prime(self) ==
    LET three == from_u32(USize(3))
        m     == modulus(self, three.out.val)
        two   == from_u32(USize(2))
        pre   == three.calls \o m.calls \o two.calls
    IN  IF ~m.out.ok THEN R(m.out, three.calls \o m.calls)
        ELSE IF ~BN_eq(m.out.val, two.out.val) THEN R(OkBool(FALSE), pre)
        ELSE LET p1 == is_prime(self)
             IN  IF ~p1.out.flag THEN R(OkBool(FALSE), pre \o p1.calls)
                 ELSE LET half == rshift1(self)
                          p2   == is_prime(half.out.val)
                      IN  R(OkBool(p2.out.flag),
                            pre \o p1.calls \o half.calls \o p2.calls)

\* the results generate_prime can return: a prime of `size` bits
generate_prime(size) ==
    LET qs == GeneratedPrimes(size, FALSE)
        cs == new.calls \o <<"BN_generate_prime_ex">>
    IN  IF qs = {} THEN {R(FromErrorStack(EErr("bits too small")), cs)}
        ELSE {R(Ok(Mk(q)), cs) : q \in qs}

\* the results generate_safe_prime can return: a safe prime of size + 1 bits
generate_safe_prime(size) ==
    LET qs == GeneratedPrimes(size + 1, TRUE)
        cs == new.calls \o <<"BN_generate_prime_ex">>
    IN  IF qs = {} THEN {R(FromErrorStack(EErr("bits too small")), cs)}
        ELSE {R(Ok(Mk(q)), cs) : q \in qs}

\* the results rand can return: any number below 2^size
rand(size) == {R(Ok(Mk(v)), new.calls \o <<"BN_rand">>) : v \in 0..(Pow2(size) - 1)}

\* the results rand_range can return: any number in [0, self)
rand_range(self) ==
    IF Val(self) <= 0
    THEN {R(FromErrorStack(EErr("invalid range")), new.calls \o <<"BN_rand_range">>)}
    ELSE {R(Ok(Mk(v)), new.calls \o <<"BN_rand_range">>) : v \in 0..(Val(self) - 1)}

\* -------------------------------------------------------------- the state
\* x        the BigNumber the caller holds: the receiver of every method
\* last     the facade call in progress: its name, receiver, arguments,
\*          result and engine calls; op = "none" between calls
\* pc       per thread, the engine calls its current facade call has left
\* ctx      per thread, its BN_CONTEXT cell: created or not, the RefCell
\*          borrow count, and the last thread that borrowed it
\* panicked per thread, whether a borrow_mut failed in it
Threads == 1..NumThreads

Idle ==
    [op |-> "none", self |-> Zero, a |-> Zero, b |-> Zero, w |-> 0, hi |-> 0,
     s |-> <<>>, out |-> Ok(Zero), calls |-> <<>>]

NoCtx == [init |-> FALSE, borrows |-> 0, user |-> 0]

\* the thread_local! cell a thread reaches: its own
BN_CONTEXT(t) == t

InitThreads ==
    /\ pc = [t \in Threads |-> <<>>]
    /\ ctx = [t \in Threads |-> NoCtx]
    /\ panicked = [t \in Threads |-> FALSE]

Init ==
    /\ x \in Vals
    /\ last = Idle
    /\ InitThreads

\* a call of method op on receiver self with arguments a, b, w returned r
Called(op, self, a, b, w, r) ==
    last' = [Idle EXCEPT !.op = op, !.self = self, !.a = a, !.b = b,
                         !.w = w, !.out = r.out, !.calls = r.calls]

\* no facade call is in progress
Ready == last.op = "none"

\* a method that leaves its receiver alone
Pure(op, a, b, w, r) ==
    /\ Called(op, x, a, b, w, r)
    /\ UNCHANGED <<x, pc, ctx, panicked>>

\* an in-place method: the receiver takes the engine's result r, and keeps
\* its value when the engine fails; the receiver stays within MaxVal
InPlace(op, w, r) ==
    /\ r.val.mag <= MaxVal
    /\ Called(op, x, Zero, Zero, w, R(Try(r), <<op>>))
    /\ x' = IF r.ok THEN r.val ELSE x
    /\ UNCHANGED <<pc, ctx, panicked>>

\* ------------------------------------------------------------ the actions
New ==
    /\ Ready
    /\ Pure("new", Zero, Zero, 0, new)

Default ==
    /\ Ready
    /\ Pure("default", Zero, Zero, 0, from_u32(USize(0)))

GeneratePrime ==
    /\ Ready
    /\ \E size \in 0..MaxSize : \E r \in generate_prime(size) :
           Pure("generate_prime", Zero, Zero, size, r)

GenerateSafePrime ==
    /\ Ready
    /\ \E size \in 0..MaxSize : \E r \in generate_safe_prime(size) :
           Pure("generate_safe_prime", Zero, Zero, size, r)

IsPrime ==
    /\ Ready
    /\ Pure("is_prime", Zero, Zero, 0, is_prime(x))

IsSafePrime ==
    /\ Ready
    /\ Pure("is_safe_prime", Zero, Zero, 0, is_safe_prime(x))

Rand ==
    /\ Ready
    /\ \E size \in 0..MaxBit : \E r \in rand(size) :
           Pure("rand", Zero, Zero, size, r)

RandRange ==
    /\ Ready
    /\ \E r \in rand_range(x) : Pure("rand_range", Zero, Zero, 0, r)

IsNegative ==
    /\ Ready
    /\ Pure("is_negative", Zero, Zero, 0, R(OkBool(is_negative(x)), <<>>))

FromU32 ==
    /\ Ready
    /\ \E n \in Usizes :
           /\ last' = [Idle EXCEPT !.op = "from_u32", !.self = x, !.w = n.lo,
                                   !.hi = n.hi, !.out = from_u32(n).out,
                                   !.calls = from_u32(n).calls]
           /\ UNCHANGED <<x, pc, ctx, panicked>>

FromDec ==
    /\ Ready
    /\ \E dec \in Strings :
           /\ last' = [Idle EXCEPT !.op = "from_dec", !.self = x, !.s = dec,
                                   !.out = from_dec(dec).out,
                                   !.calls = from_dec(dec).calls]
           /\ UNCHANGED <<x, pc, ctx, panicked>>

\* from_bytes of the bytes to_bytes returns
BytesRoundTrip ==
    /\ Ready
    /\ Pure("from_bytes", Zero, Zero, 0, from_bytes(ToVec(x.mag)))

Add ==
    /\ Ready
    /\ \E a \in Vals : Pure("add", a, Zero, 0, add(x, a))

Sub ==
    /\ Ready
    /\ \E a \in Vals : Pure("sub", a, Zero, 0, sub(x, a))

Sqr ==
    /\ Ready
    /\ Pure("sqr", Zero, Zero, 0, sqr(x))

Mul ==
    /\ Ready
    /\ \E a \in Vals : Pure("mul", a, Zero, 0, mul(x, a))

ModMul ==
    /\ Ready
    /\ \E a \in Vals, n \in NonNegVals : Pure("mod_mul", a, n, 0, mod_mul(x, a, n))

ModSub ==
    /\ Ready
    /\ \E a \in Vals, n \in NonNegVals : Pure("mod_sub", a, n, 0, mod_sub(x, a, n))

Div ==
    /\ Ready
    /\ \E a \in Vals : Pure("div", a, Zero, 0, div(x, a))

Gcd ==
    /\ Ready
    /\ \E b \in Vals : Pure("gcd", x, b, 0, gcd(x, b))

Modulus ==
    /\ Ready
    /\ \E a \in Vals : Pure("modulus", a, Zero, 0, modulus(x, a))

Exp ==
    /\ Ready
    /\ \E e \in 0..MaxBit : Pure("exp", Mk(e), Zero, 0, exp(x, Mk(e)))

Inverse ==
    /\ Ready
    /\ \E n \in NonNegVals : Pure("inverse", n, Zero, 0, inverse(x, n))

ModExp ==
    /\ Ready
    /\ \E a \in Vals, b \in NonNegVals \ {Zero} :
           Pure("mod_exp", a, b, 0, mod_exp(x, a, b))

ModDiv ==
    /\ Ready
    /\ \E b \in Vals, p \in NonNegVals : Pure("mod_div", b, p, 0, mod_div(x, b, p))

SetNegative ==
    /\ Ready
    /\ \E negative \in BOOLEAN :
           Pure("set_negative", Zero, Zero, IF negative THEN 1 ELSE 0,
                set_negative(x, negative))

Increment ==
    /\ Ready
    /\ Pure("increment", Zero, Zero, 0, increment(x))

Decrement ==
    /\ Ready
    /\ Pure("decrement", Zero, Zero, 0, decrement(x))

Lshift1 ==
    /\ Ready
    /\ Pure("lshift1", Zero, Zero, 0, lshift1(x))

Rshift1 ==
    /\ Ready
    /\ Pure("rshift1", Zero, Zero, 0, rshift1(x))

Rshift ==
    /\ Ready
    /\ \E n \in 0..MaxBit : Pure("rshift", Zero, Zero, n, rshift(x, n))

TryClone ==
    /\ Ready
    /\ Pure("try_clone", Zero, Zero, 0, try_clone(x))

SetBit ==
    /\ Ready
    /\ \E n \in (-1)..MaxBit : InPlace("set_bit", n, BN_set_bit(x, n))

AddWord ==
    /\ Ready
    /\ \E w \in 0..MaxWord : InPlace("add_word", w, EOk(BN_add_word(x, w)))

SubWord ==
    /\ Ready
    /\ \E w \in 0..MaxWord : InPlace("sub_word", w, EOk(BN_sub_word(x, w)))

MulWord ==
    /\ Ready
    /\ \E w \in 0..MaxWord : InPlace("mul_word", w, EOk(BN_mul_word(x, w)))

DivWord ==
    /\ Ready
    /\ \E w \in 0..MaxWord : InPlace("div_word", w, BN_div_word(x, w))

\* the caller takes the result: it drops it, or binds it in place of x
Return ==
    /\ last.op # "none"
    /\ last' = Idle
    /\ \E keep \in BOOLEAN :
         x' = IF keep /\ last.out.ok /\ last.out.val.mag <= MaxVal
                   /\ last.op \notin {"is_prime", "is_safe_prime", "is_negative"}
              THEN last.out.val ELSE x
    /\ UNCHANGED <<pc, ctx, panicked>>

Next ==
    \/ New \/ Default \/ GeneratePrime \/ GenerateSafePrime
    \/ IsPrime \/ IsSafePrime \/ Rand \/ RandRange \/ IsNegative
    \/ FromU32 \/ FromDec \/ BytesRoundTrip
    \/ Add \/ Sub \/ Sqr \/ Mul \/ ModMul \/ ModSub \/ Div \/ Gcd
    \/ Modulus \/ Exp \/ Inverse \/ ModExp \/ ModDiv
    \/ SetNegative \/ Increment \/ Decrement
    \/ Lshift1 \/ Rshift1 \/ Rshift \/ TryClone
    \/ SetBit \/ AddWord \/ SubWord \/ MulWord \/ DivWord
    \/ Return

Spec == Init /\ [][Next]_vars

\* ------------------------------------------- the threads and the scratch
\* every facade call, over every receiver and argument
FacadeCalls ==
    {new, from_u32(USize(0))}
    \cup UNION {generate_prime(n) \cup generate_safe_prime(n) : n \in 0..MaxSize}
    \cup {is_prime(s) : s \in Vals}
    \cup {is_safe_prime(s) : s \in Vals}
    \cup {add(s, a) : s \in Vals, a \in {Zero}}
    \cup {sqr(s) : s \in Vals}
    \cup {mul(s, a) : s \in Vals, a \in Vals}
    \cup {mod_mul(s, a, n) : s \in Vals, a \in Vals, n \in NonNegVals}
    \cup {mod_sub(s, a, n) : s \in Vals, a \in Vals, n \in NonNegVals}
    \cup {div(s, a) : s \in Vals, a \in Vals}
    \cup {gcd(s, a) : s \in Vals, a \in Vals}
    \cup {modulus(s, a) : s \in Vals, a \in Vals}
    \cup {exp(s, Mk(e)) : s \in Vals, e \in 0..MaxBit}
    \cup {inverse(s, n) : s \in Vals, n \in NonNegVals}
    \cup {mod_exp(s, a, b) : s \in Vals, a \in Vals, b \in NonNegVals \ {Zero}}
    \cup {mod_div(s, b, p) : s \in Vals, b \in Vals, p \in NonNegVals}
    \cup {set_negative(s, n) : s \in Vals, n \in BOOLEAN}
    \cup {increment(s) : s \in Vals}
    \cup {rshift1(s) : s \in Vals}
    \cup {try_clone(s) : s \in Vals}

\* the sequences of engine calls a facade call can make
Logs == {r.calls : r \in FacadeCalls}

InitCtx ==
    /\ x = Zero
    /\ last = Idle
    /\ InitThreads

\* thread t enters a facade method
Begin(t) ==
    /\ pc[t] = <<>>
    /\ ~panicked[t]
    /\ \E calls \in Logs : pc' = [pc EXCEPT ![t] = calls]
    /\ UNCHANGED <<x, last, ctx, panicked>>

\* cell.borrow_mut() on the thread's BN_CONTEXT: the cell is created on the
\* first access; a cell already borrowed makes borrow_mut panic, and the
\* unwinding thread gives up the borrow it holds
Borrow(t) ==
    /\ pc[t] # <<>>
    /\ Head(pc[t]) = "borrow"
    /\ LET k == BN_CONTEXT(t) IN
       IF ctx[k].borrows = 0
       THEN /\ ctx' = [ctx EXCEPT ![k] = [init |-> TRUE, borrows |-> 1, user |-> t]]
            /\ pc' = [pc EXCEPT ![t] = Tail(pc[t])]
            /\ UNCHANGED panicked
       ELSE /\ panicked' = [panicked EXCEPT ![t] = TRUE]
            /\ pc' = [pc EXCEPT ![t] = <<>>]
            /\ ctx' = [ctx EXCEPT ![k].borrows =
                          IF ctx[k].user = t THEN 0 ELSE ctx[k].borrows]
    /\ UNCHANGED <<x, last>>

\* the closure returns and the RefMut is dropped
Release(t) ==
    /\ pc[t] # <<>>
    /\ Head(pc[t]) = "release"
    /\ ctx' = [ctx EXCEPT ![BN_CONTEXT(t)].borrows = @ - 1]
    /\ pc' = [pc EXCEPT ![t] = Tail(pc[t])]
    /\ UNCHANGED <<x, last, panicked>>

\* the thread makes its next engine call
EngineCall(t) ==
    /\ pc[t] # <<>>
    /\ Head(pc[t]) \notin {"borrow", "release"}
    /\ pc' = [pc EXCEPT ![t] = Tail(pc[t])]
    /\ UNCHANGED <<x, last, ctx, panicked>>

NextCtx ==
    \E t \in Threads : Begin(t) \/ Borrow(t) \/ Release(t) \/ EngineCall(t)

SpecCtx == InitCtx /\ [][NextCtx]_vars

\* ------------------------------------------------------------ the claims
Occurs(call, calls) == \E i \in 1..Len(calls) : calls[i] = call

\* b^e mod m by repeated multiplication
RECURSIVE NaivePow(_, _, _)
NaivePow(b, e, m) == IF e = 0 THEN 1 % m ELSE (b * NaivePow(b, e - 1, m)) % m

\* the residue of the integer v in [0, m)
Residue(v, m) == ((v % m) + m) % m

Coprime(a, n) == \A d \in 2..n.mag : ~(a.mag % d = 0 /\ n.mag % d = 0)

\* C1: for b > 1 and gcd(x, b) = 1, x.mod_exp(a, b) with a < 0 is
\* (x^-1 mod b)^|a| mod b and is computed through the inverse; with a >= 0 it
\* is x^a mod b and no inverse is computed; x.mod_exp(-k, b) times
\* x.mod_exp(k, b) is congruent to 1 modulo b.
C1_ModExpNegativeExponent ==
    (last.op = "mod_exp" /\ Val(last.b) > 1 /\ Coprime(last.self, last.b)) =>
        LET n    == Val(last.b)
            k    == last.a.mag
            xr   == Residue(Val(last.self), n)
            xinv == CHOOSE i \in 0..(n - 1) : (i * xr) % n = 1
            r    == Val(last.out.val)
            pos  == mod_exp(last.self, Mk(k), last.b).out
            neg  == mod_exp(last.self, Mk(-k), last.b).out
        IN  /\ last.out.ok
            /\ last.a.neg =>
                 /\ r = NaivePow(xinv, k, n)
                 /\ Occurs("BN_mod_inverse", last.calls)
            /\ ~last.a.neg =>
                 /\ r = NaivePow(xr, k, n)
                 /\ ~Occurs("BN_mod_inverse", last.calls)
            /\ pos.ok /\ neg.ok
            /\ (Val(pos.val) * Val(neg.val)) % n = 1

\* 3.mod_exp(-1, 7) has returned 5
C1_Witness ==
    /\ last.op = "mod_exp" /\ Val(last.self) = 3 /\ Val(last.a) = -1
    /\ Val(last.b) = 7 /\ last.out.ok /\ Val(last.out.val) = 5

\* C2: whenever gcd(self, n) # 1, inverse fails with InvalidStructure, and so
\* do mod_exp with a negative exponent and mod_div built on it.
C2_NoInverseIsInvalidStructure ==
    LET fails == ~last.out.ok /\ last.out.kind = "InvalidStructure" IN
    /\ (last.op = "inverse" /\ ~Coprime(last.self, last.a)) => fails
    /\ (last.op = "mod_exp" /\ last.a.neg /\ ~Coprime(last.self, last.b)) => fails
    /\ (last.op = "mod_div" /\ ~Coprime(last.a, last.b)) => fails

\* C3: for every x, negative ones included, increment returns x + 1 and
\* decrement returns x - 1, and x is left unchanged.
C3_IncrementDecrementSigned ==
    /\ last.op = "increment" =>
         last.out.ok /\ Val(last.out.val) = Val(last.self) + 1 /\ x = last.self
    /\ last.op = "decrement" =>
         last.out.ok /\ Val(last.out.val) = Val(last.self) - 1 /\ x = last.self

\* C4: for every x and every n # 0, x.modulus(n) returns r with
\* 0 <= r < |n| and r congruent to x modulo |n|; (-17).modulus(5) = 3.
C4_ModulusNonNegative ==
    (last.op = "modulus" /\ last.a.mag # 0) =>
        LET r == last.out.val
            n == last.a.mag
        IN  /\ last.out.ok
            /\ ~r.neg /\ r.mag < n
            /\ r.mag = Residue(Val(last.self), n)
            /\ (Val(last.self) = -17 /\ Val(last.a) = 5) => Val(r) = 3

\* (-17).modulus(5) has returned 3
C4_Witness ==
    /\ last.op = "modulus" /\ Val(last.self) = -17 /\ Val(last.a) = 5
    /\ last.out.ok /\ Val(last.out.val) = 3

\* C5: div and modulus by zero fail with InvalidInput.
C5_DivByZeroIsInvalidInput ==
    (last.op \in {"div", "modulus"} /\ last.a.mag = 0) =>
        ~last.out.ok /\ last.out.kind = "InvalidInput"

\* C6: every q that generate_safe_prime(size) returns has size + 1 bits, is
\* 2p + 1 with q and p prime, and is_safe_prime(q) is true.
C6_GeneratedSafePrimeIsSafe ==
    (last.op = "generate_safe_prime" /\ last.out.ok) =>
        LET q == last.out.val
            p == (q.mag - 1) \div 2
        IN  /\ ~q.neg /\ NumBits(q.mag) = last.w + 1
            /\ q.mag = 2 * p + 1 /\ IsPrimeNat(q.mag) /\ IsPrimeNat(p)
            /\ is_safe_prime(q).out.ok /\ is_safe_prime(q).out.flag

\* C7: q.is_safe_prime() is true exactly when q mod 3 = 2, q is prime and
\* (q - 1)/2 is prime; no primality test runs when q mod 3 # 2; a true result
\* implies is_prime(q) and is_prime((q - 1)/2).
C7_IsSafePrimeExact ==
    last.op = "is_safe_prime" =>
        LET q    == Val(last.self)
            cong == Residue(q, 3) = 2
            half == (q - 1) \div 2
        IN  /\ last.out.ok
            /\ last.out.flag = (cong /\ q > 1 /\ IsPrimeNat(q) /\ IsPrimeNat(half))
            /\ ~cong => ~Occurs("BN_is_prime_fasttest_ex", last.calls)
            /\ last.out.flag =>
                 /\ is_prime(last.self).out.flag
                 /\ is_prime(Mk(half)).out.flag

\* 11.is_safe_prime() has returned true
C7_Witness ==
    /\ last.op = "is_safe_prime" /\ Val(last.self) = 11 /\ last.out.flag

\* C8: no BigNumber whose value is zero reports is_negative() = true;
\* set_negative(true) of zero is a non-negative zero; try_clone keeps the
\* magnitude and the sign.
C8_ZeroNeverNegative ==
    /\ \A bn \in {x, last.self, last.out.val} : bn.mag = 0 => ~is_negative(bn)
    /\ (last.op = "set_negative" /\ last.self.mag = 0) =>
          last.out.ok /\ ~is_negative(last.out.val)
    /\ last.op = "try_clone" =>
          /\ last.out.ok
          /\ last.out.val.mag = last.self.mag
          /\ is_negative(last.out.val) = is_negative(last.self)

\* zero.set_negative(true) has returned zero
C8_Witness ==
    /\ last.op = "set_negative" /\ last.self.mag = 0 /\ last.w = 1
    /\ last.out.ok /\ last.out.val.mag = 0

\* C9: for every usize n, from_u32(n) is non-negative and its value is n,
\* the usize with upper half last.hi and lower half last.w.
C9_FromU32Exact ==
    last.op = "from_u32" =>
        /\ last.out.ok /\ ~last.out.val.neg
        /\ last.hi = 0 /\ last.out.val.mag = last.w

\* C10: a thread's scratch is created on that thread's first borrow and is
\* used by no other thread; no thread attempts a borrow while its scratch is
\* borrowed, so that no borrow_mut ever panics.
C10_ScratchBorrowedOnce ==
    /\ \A t \in Threads : ~panicked[t]
    /\ \A k \in Threads :
         /\ ctx[k].borrows <= 1
         /\ ctx[k].user \in {0, k}
         /\ ctx[k].init = (ctx[k].user = k)
    /\ \A t \in Threads :
         (pc[t] # <<>> /\ Head(pc[t]) = "borrow") =>
             ctx[BN_CONTEXT(t)].borrows = 0

\* thread 1 is in the multiplication of a mod_div, after its inverse, while
\* thread 2 holds its own scratch
C10_Witness ==
    /\ pc[1] = <<"BN_mod_mul", "release">>
    /\ ctx[1].borrows = 1 /\ ctx[2].borrows = 1
    /\ pc[2] # <<>>

====
